---- MODULE Spec2Model ----
(***************************************************************************)
(* A model of the time-aware retrieval core of the knowledge assistant:    *)
(* query intent detection (ChatService), the chunk store with indexing and *)
(* search (KnowledgeBaseService), recency re-ranking, and the save and     *)
(* delete requests of the documents router, step by step.                  *)
(*                                                                         *)
(* Text is a sequence of one-character strings.  A datetime of the         *)
(* retrieval engine is an integer number of ticks, TicksPerDay of them to  *)
(* a day; a datetime built by intent detection is a [year, month, day]     *)
(* record.  A similarity score is an integer in units of 1/FactorDen, so   *)
(* that the re-ranking factors are exact.                                  *)
(***************************************************************************)
EXTENDS Integers, Sequences, FiniteSets, TLC

VARIABLES
    message,      \* intent detection: the query text
    nowYear,      \* intent detection: datetime.now().year
    hints,        \* intent detection: the dict _detect_time_hints returned
    detected,     \* intent detection: whether _detect_time_hints has run
    store,        \* the Qdrant collection: the points, in insertion order
    nextDocId,    \* the next document id the database hands out
    search,       \* the last call of KnowledgeBaseService.search
    rerank,       \* the last direct call of _rerank_with_recency
    company_hints, \* intent detection: the last call of _extract_company_hints
    assign,       \* the last direct call of assign_chunk_dates
    app,          \* the application: its settings and whether it has started
    collections,  \* the names of the collections in the Qdrant storage
    saving,       \* the save_document request in flight
    docs,         \* the committed rows of the documents table, by id
    deletion,     \* the last delete_document request
    temp_files,   \* DocumentProcessor._temp_files: the upload ids it holds
    requests      \* the concurrent save and delete requests, by request

vars ==
    <<message, nowYear, hints, detected, store, nextDocId, search, rerank,
      company_hints, assign, app, collections, saving, docs, deletion,
      temp_files, requests>>

-----------------------------------------------------------------------------
(* Bounds of the model *)

MaxWords == 4
MaxPhrases == 3
MaxChunks == 2
MaxDocs == 2
MaxTopK == 2
MaxUploads == 2
MaxRequests == 3
MaxResults == 2
TicksPerDay == 2

-----------------------------------------------------------------------------
(* Text *)

UpperLetters ==
    <<"A","B","C","D","E","F","G","H","I","J","K","L","M",
      "N","O","P","Q","R","S","T","U","V","W","X","Y","Z">>

LowerLetters ==
    <<"a","b","c","d","e","f","g","h","i","j","k","l","m",
      "n","o","p","q","r","s","t","u","v","w","x","y","z">>

Digits == <<"0","1","2","3","4","5","6","7","8","9">>

Range(s) == {s[i] : i \in DOMAIN s}

IsDigit(c) == c \in Range(Digits)

DigitVal(c) == (CHOOSE i \in DOMAIN Digits : Digits[i] = c) - 1

\* \w of the re module: a letter, a digit or the underscore
IsWordChar(c) ==
    c \in Range(UpperLetters) \cup Range(LowerLetters) \cup Range(Digits) \cup {"_"}

\* \s of the re module
IsSpace(c) == c \in {" ", "\t", "\n"}

\* str.lower() on one character
LowerChar(c) ==
    IF c \in Range(UpperLetters)
    THEN LowerLetters[CHOOSE i \in DOMAIN UpperLetters : UpperLetters[i] = c]
    ELSE c

\* str.lower()
Lower(s) == [i \in DOMAIN s |-> LowerChar(s[i])]

\* sub occurs in s at position i
OccursAt(s, sub, i) ==
    /\ i >= 1
    /\ i + Len(sub) - 1 <= Len(s)
    /\ \A k \in 1..Len(sub) : s[i + k - 1] = sub[k]

\* Python's `sub in s`
Contains(s, sub) == \E i \in 1..(Len(s) + 1) : OccursAt(s, sub, i)

\* " ".join(words)
RECURSIVE Join(_)
Join(words) ==
    IF Len(words) = 0 THEN <<>>
    ELSE IF Len(words) = 1 THEN words[1]
    ELSE words[1] \o <<" ">> \o Join(Tail(words))

-----------------------------------------------------------------------------
(* Query intent detection: ChatService._detect_time_hints *)

MONTHS ==
    << <<"j","a","n","u","a","r","y">>,
       <<"f","e","b","r","u","a","r","y">>,
       <<"m","a","r","c","h">>,
       <<"a","p","r","i","l">>,
       <<"m","a","y">>,
       <<"j","u","n","e">>,
       <<"j","u","l","y">>,
       <<"a","u","g","u","s","t">>,
       <<"s","e","p","t","e","m","b","e","r">>,
       <<"o","c","t","o","b","e","r">>,
       <<"n","o","v","e","m","b","e","r">>,
       <<"d","e","c","e","m","b","e","r">> >>

RECENCY_KEYWORDS ==
    { <<"r","e","c","e","n","t">>,
      <<"l","a","t","e","s","t">>,
      <<"l","a","s","t">>,
      <<"n","e","w","e","s","t">>,
      <<"c","u","r","r","e","n","t">>,
      <<"t","o","d","a","y">>,
      <<"t","h","i","s"," ","w","e","e","k">>,
      <<"t","h","i","s"," ","m","o","n","t","h">> }

\* datetime(year, month, day)
DateTime(y, m, d) == [year |-> y, month |-> m, day |-> d]

\* hints[k] = v
Put(h, k, v) == (k :> v) @@ h

Min(S) == CHOOSE x \in S : \A y \in S : x <= y

\* the group of a regular expression that did not take part in the match
NoGroup == -1

\* \b at the gap before position p of s
WordBoundary(s, p) ==
    LET before == p > 1 /\ IsWordChar(s[p - 1])
        after == p <= Len(s) /\ IsWordChar(s[p])
    IN  before # after

\* 20\d{2} at position i of s
YearAt(s, i) ==
    /\ i >= 1
    /\ i + 3 <= Len(s)
    /\ s[i] = "2"
    /\ s[i + 1] = "0"
    /\ IsDigit(s[i + 2])
    /\ IsDigit(s[i + 3])

\* int() of the four digits at position i
YearValue(s, i) ==
    1000 * DigitVal(s[i]) + 100 * DigitVal(s[i + 1])
        + 10 * DigitVal(s[i + 2]) + DigitVal(s[i + 3])

\* r'\b(20\d{2})\b' matches at position i
YearMatchAt(s, i) == YearAt(s, i) /\ WordBoundary(s, i) /\ WordBoundary(s, i + 4)

\* re.search(r'\b(20\d{2})\b', message): group 1 of the leftmost match
YearSearch(s) ==
    LET at == {i \in 1..Len(s) : YearMatchAt(s, i)}
    IN  IF at = {} THEN NoGroup ELSE YearValue(s, Min(at))

\* Q([1-4]) under re.IGNORECASE at position i
QuarterAt(s, i) ==
    /\ i >= 1
    /\ i + 1 <= Len(s)
    /\ LowerChar(s[i]) = "q"
    /\ s[i + 1] \in {"1", "2", "3", "4"}

\* the position after the longest run of \s that starts at p
RECURSIVE SkipSpaces(_, _)
SkipSpaces(s, p) ==
    IF p <= Len(s) /\ IsSpace(s[p]) THEN SkipSpaces(s, p + 1) ELSE p

\* re.search(r'Q([1-4])\s*(20\d{2})?', message, re.IGNORECASE): groups 1 and 2
\* of the leftmost match
QuarterSearch(s) ==
    LET at == {i \in 1..Len(s) : QuarterAt(s, i)}
    IN  IF at = {} THEN [quarter |-> NoGroup, year |-> NoGroup]
        ELSE LET i == Min(at)
                 k == SkipSpaces(s, i + 2)
             IN  [quarter |-> DigitVal(s[i + 1]),
                  year |-> IF YearAt(s, k) THEN YearValue(s, k) ELSE NoGroup]

\* lines 30-32
RecencyStep(h, lower) ==
    IF \E keyword \in RECENCY_KEYWORDS : Contains(lower, keyword)
    THEN Put(h, "prioritize_recent", TRUE)
    ELSE h

\* MonthStep without the wrap of December: the range ends in the same year
MonthStepNoWrap(h, lower, year) ==
    LET found == {i \in DOMAIN MONTHS : Contains(lower, MONTHS[i])}
    IN  IF found = {} THEN h
        ELSE LET i == Min(found)
             IN  Put(Put(h, "date_start", DateTime(year, i, 1)),
                     "date_end", DateTime(year, (i % 12) + 1, 1))

\* MonthStep with the month whose name stands leftmost in the text
MonthStepLeftmost(h, lower, year) ==
    LET found == {i \in DOMAIN MONTHS : Contains(lower, MONTHS[i])}
        At(i) == Min({p \in 1..Len(lower) : OccursAt(lower, MONTHS[i], p)})
    IN  IF found = {} THEN h
        ELSE LET i == CHOOSE k \in found : \A j \in found : At(k) <= At(j)
                 h1 == Put(h, "date_start", DateTime(year, i, 1))
             IN  IF i = 12
                 THEN Put(h1, "date_end", DateTime(year + 1, 1, 1))
                 ELSE Put(h1, "date_end", DateTime(year, i + 1, 1))

\* lines 34-45: the first month of MONTHS, in list order, that the text contains
MonthStep(h, lower, year) ==
    LET found == {i \in DOMAIN MONTHS : Contains(lower, MONTHS[i])}
    IN  IF found = {} THEN h
        ELSE LET i == Min(found)
                 h1 == Put(h, "date_start", DateTime(year, i, 1))
             IN  IF i = 12
                 THEN Put(h1, "date_end", DateTime(year + 1, 1, 1))
                 ELSE Put(h1, "date_end", DateTime(year, i + 1, 1))

\* YearStep with the pattern 20\d{2}, its two \b lost
YearStepNoBoundary(h, msg) ==
    LET at == {i \in 1..Len(msg) : YearAt(msg, i)}
    IN  IF at # {} /\ "date_start" \notin DOMAIN h
        THEN Put(Put(h, "date_start", DateTime(YearValue(msg, Min(at)), 1, 1)),
                 "date_end", DateTime(YearValue(msg, Min(at)) + 1, 1, 1))
        ELSE h

\* YearStep without line 53: it sets the start of the range only
YearStepStartOnly(h, msg) ==
    LET year == YearSearch(msg)
    IN  IF year # NoGroup /\ "date_start" \notin DOMAIN h
        THEN Put(h, "date_start", DateTime(year, 1, 1))
        ELSE h

\* YearStep without the test of line 51: the year replaces a range already set
YearStepOverwrites(h, msg) ==
    LET year == YearSearch(msg)
    IN  IF year # NoGroup
        THEN Put(Put(h, "date_start", DateTime(year, 1, 1)),
                 "date_end", DateTime(year + 1, 1, 1))
        ELSE h

\* lines 47-53
YearStep(h, msg) ==
    LET year == YearSearch(msg)
    IN  IF year # NoGroup /\ "date_start" \notin DOMAIN h
        THEN Put(Put(h, "date_start", DateTime(year, 1, 1)),
                 "date_end", DateTime(year + 1, 1, 1))
        ELSE h

\* QuarterStep guarded like the year rule: it leaves a range already set alone
QuarterStepNoOverwrite(h, msg, thisYear) ==
    LET m == QuarterSearch(msg)
    IN  IF m.quarter = NoGroup \/ "date_start" \in DOMAIN h THEN h
        ELSE LET year == IF m.year # NoGroup THEN m.year ELSE thisYear
                 start_month == (m.quarter - 1) * 3 + 1
                 h1 == Put(h, "date_start", DateTime(year, start_month, 1))
             IN  IF start_month + 3 > 12
                 THEN Put(h1, "date_end", DateTime(year + 1, 1, 1))
                 ELSE Put(h1, "date_end", DateTime(year, start_month + 3, 1))

\* QuarterStep without the wrap of the fourth quarter: the range ends in the
\* same year
QuarterStepNoWrap(h, msg, thisYear) ==
    LET m == QuarterSearch(msg)
    IN  IF m.quarter = NoGroup THEN h
        ELSE LET year == IF m.year # NoGroup THEN m.year ELSE thisYear
                 start_month == (m.quarter - 1) * 3 + 1
             IN  Put(Put(h, "date_start", DateTime(year, start_month, 1)),
                     "date_end", DateTime(year, ((start_month + 2) % 12) + 1, 1))

\* lines 55-66
QuarterStep(h, msg, thisYear) ==
    LET m == QuarterSearch(msg)
    IN  IF m.quarter = NoGroup THEN h
        ELSE LET year == IF m.year # NoGroup THEN m.year ELSE thisYear
                 start_month == (m.quarter - 1) * 3 + 1
                 end_month == start_month + 3
                 h1 == Put(h, "date_start", DateTime(year, start_month, 1))
             IN  IF end_month > 12
                 THEN Put(h1, "date_end", DateTime(year + 1, 1, 1))
                 ELSE Put(h1, "date_end", DateTime(year, end_month, 1))

\* _detect_time_hints(message) when datetime.now().year = thisYear
DetectTimeHintsOf(msg, thisYear) ==
    LET lower == Lower(msg)
        h1 == RecencyStep(<<>>, lower)
        h2 == MonthStep(h1, lower, thisYear)
        h3 == YearStep(h2, msg)
    IN  QuarterStep(h3, msg, thisYear)

\* The queries: up to MaxWords words of the vocabulary, joined by single spaces
Vocabulary ==
    { <<"m","a","r","c","h">>,
      <<"M","a","y">>,
      <<"d","e","c","e","m","b","e","r">>,
      <<"Q","3">>,
      <<"2","0","2","5">>,
      <<"q","1">>,
      <<"r","e","c","e","n","t">>,
      <<"x","2","0","2","5">> }

Queries == {Join(ws) : ws \in UNION {[1..n -> Vocabulary] : n \in 0..MaxWords}}

\* The queries about quarters: every quarter, in either case, with a year
\* behind it or elsewhere in the query or nowhere
QuarterVocabulary ==
    { <<"Q","1">>,
      <<"q","2">>,
      <<"Q","3">>,
      <<"Q","4">>,
      <<"Q","4","2","0","2","7">>,
      <<"2","0","2","4">>,
      <<"m","a","r","c","h">> }

QuarterQueries ==
    {Join(ws) : ws \in UNION {[1..n -> QuarterVocabulary] : n \in 0..MaxWords}}

NowYears == {2025, 2026}

NoHints == <<>>

DetectTimeHints ==
    /\ ~detected
    /\ hints' = DetectTimeHintsOf(message, nowYear)
    /\ detected' = TRUE
    /\ UNCHANGED <<temp_files, requests>>
    /\ UNCHANGED <<message, nowYear, store, nextDocId, search, rerank,
                 company_hints, assign, app, collections, saving, docs, deletion>>

-----------------------------------------------------------------------------
(* Company hints: ChatService._extract_company_hints *)

\* [A-Z]
IsUpper(c) == c \in Range(UpperLetters)

\* [a-zA-Z]
IsLetter(c) == c \in Range(UpperLetters) \cup Range(LowerLetters)

\* the position after the longest run of [a-zA-Z] that starts at p
RECURSIVE LetterRunEnd(_, _)
LetterRunEnd(s, p) ==
    IF p <= Len(s) /\ IsLetter(s[p]) THEN LetterRunEnd(s, p + 1) ELSE p

NoMatch == 0

\* [A-Z][a-zA-Z]+ at position p: the position after the match, or NoMatch
CapitalizedWordEnd(s, p) ==
    IF p + 1 <= Len(s) /\ IsUpper(s[p]) /\ IsLetter(s[p + 1])
    THEN LetterRunEnd(s, p + 1)
    ELSE NoMatch

\* (?:\s+[A-Z][a-zA-Z]+)* from position e: the position after the last
\* repetition that matches
RECURSIVE PhraseEnd(_, _)
PhraseEnd(s, e) ==
    LET k == SkipSpaces(s, e)
    IN  IF k > e /\ CapitalizedWordEnd(s, k) # NoMatch
        THEN PhraseEnd(s, CapitalizedWordEnd(s, k))
        ELSE e

\* the four patterns with a fifth for the preposition "from"
CompanyPrepositionsWithFrom ==
    << <<"a","b","o","u","t">>, <<"a","t">>, <<"w","i","t","h">>, <<"f","o","r">>, <<"f","r","o","m">> >>

\* lines 77-82: the prepositions of the four patterns, in list order
CompanyPrepositions ==
    << <<"a","b","o","u","t">>, <<"a","t">>, <<"w","i","t","h">>, <<"f","o","r">> >>

\* r'\b<preposition>\s+(...)' matches at position i
CompanyMatchAt(s, preposition, i) ==
    LET k == SkipSpaces(s, i + Len(preposition))
    IN  /\ WordBoundary(s, i)
        /\ OccursAt(s, preposition, i)
        /\ k > i + Len(preposition)
        /\ CapitalizedWordEnd(s, k) # NoMatch

\* re.findall(pattern, message) from position `from` on: group 1 of every
\* match, leftmost first, the scan going on where a match ends
RECURSIVE FindAll(_, _, _)
FindAll(s, preposition, from) ==
    LET at == {i \in from..Len(s) : CompanyMatchAt(s, preposition, i)}
    IN  IF at = {} THEN <<>>
        ELSE LET i == Min(at)
                 k == SkipSpaces(s, i + Len(preposition))
                 e == PhraseEnd(s, CapitalizedWordEnd(s, k))
             IN  <<SubSeq(s, k, e - 1)>> \o FindAll(s, preposition, e)

\* lines 84-86: companies after the loop over the patterns
RECURSIVE CompanyMatches(_, _)
CompanyMatches(s, prepositions) ==
    IF prepositions = <<>> THEN <<>>
    ELSE FindAll(s, Head(prepositions), 1) \o CompanyMatches(s, Tail(prepositions))

\* line 88, list(set(companies)): the lists that hold every element of the
\* set once; which one the interpreter builds depends on its string hashing
ListsOfSet(S) ==
    {l \in [1..Cardinality(S) -> S] : \A x \in S : \E i \in DOMAIN l : l[i] = x}

\* The queries: up to MaxPhrases phrases, joined by single spaces
Phrases ==
    { <<"r","e","c","e","n","t"," ","u","p","d","a","t","e","s">>, <<"f","r","o","m">>, <<"A","c","m","e">>, <<"a","b","o","u","t"," ","A","c","m","e">>, <<"f","o","r">>, <<"C","o","r","p">>, <<"t","h","a","t">> }

CompanyQueries ==
    {Join(ws) : ws \in UNION {[1..n -> Phrases] : n \in 0..MaxPhrases}}

NoCompanyHints == [called |-> FALSE, matches |-> <<>>, result |-> <<>>]

ExtractCompanyHints ==
    /\ ~company_hints.called
    /\ LET companies == CompanyMatches(message, CompanyPrepositions)
       IN  \E result \in ListsOfSet(Range(companies)) :
               company_hints' = [called |-> TRUE, matches |-> companies,
                           result |-> result]
    /\ UNCHANGED <<temp_files, requests>>
    /\ UNCHANGED <<message, nowYear, hints, detected, store, nextDocId, search,
                   rerank, assign, app, collections, saving, docs, deletion>>

-----------------------------------------------------------------------------
(* Recency re-ranking: KnowledgeBaseService._rerank_with_recency *)

\* The chunk_date of a payload: None, the empty string, a string that
\* datetime.fromisoformat rejects, an ISO string without a UTC offset (a naive
\* datetime, `at` its ticks) or an ISO string with one (an aware datetime).
NoDate == [kind |-> "none"]
EmptyDate == [kind |-> "empty"]
BadDate == [kind |-> "unparseable"]
Naive(t) == [kind |-> "naive", at |-> t]
Aware(t) == [kind |-> "aware", at |-> t]

\* `if chunk_date:`
Truthy(chunk_date) == chunk_date.kind \notin {"none", "empty"}

\* datetime.fromisoformat(chunk_date) returns a datetime
Parses(chunk_date) == chunk_date.kind \in {"naive", "aware"}

BoostWindowDays == 30
PenaltyAfterDays == 365
BoostPercent == 20
PenaltyPercent == 10

\* A factor is a whole number of FactorDen-ths, a score a whole number of
\* FactorDen-ths of a similarity grade: every product below is exact.
FactorDen == 100 * BoostWindowDays * PenaltyAfterDays

MinOf(a, b) == IF a <= b THEN a ELSE b

\* (now - date).days: timedelta.days is the floor of the difference in days
DaysAgo(now, at) == (now - at) \div TicksPerDay

\* Boost with the penalty starting at day 365 itself
BoostPenaltyFrom365(days_ago) ==
    IF days_ago < BoostWindowDays
    THEN BoostPercent * (BoostWindowDays - days_ago) * PenaltyAfterDays
    ELSE IF days_ago >= PenaltyAfterDays
    THEN 0 - PenaltyPercent * MinOf(days_ago, PenaltyAfterDays) * BoostWindowDays
    ELSE 0

\* lines 277-282: boost, in FactorDen-ths
\*   0.2 * (1 - days_ago / 30)        = 20 * (30 - days_ago) * 365 / FactorDen
\*   -0.1 * min(days_ago / 365, 1)    = -10 * min(days_ago, 365) * 30 / FactorDen
Boost(days_ago) ==
    IF days_ago < BoostWindowDays
    THEN BoostPercent * (BoostWindowDays - days_ago) * PenaltyAfterDays
    ELSE IF days_ago > PenaltyAfterDays
    THEN 0 - PenaltyPercent * MinOf(days_ago, PenaltyAfterDays) * BoostWindowDays
    ELSE 0

\* score * (1 + boost), for a score that is a multiple of FactorDen
Scaled(score, boost) == (score \div FactorDen) * (FactorDen + boost)

\* The exception the try block of lines 271-284 raises for this chunk_date:
\* fromisoformat rejects the string (ValueError), or now - date mixes a naive
\* with an aware datetime (TypeError)
RerankError(chunk_date) ==
    IF ~Parses(chunk_date) THEN "ValueError"
    ELSE IF chunk_date.kind = "aware" THEN "TypeError"
    ELSE "none"

\* a loop body without its except clause
RerankCaughtNothing == {}

\* line 285: except (ValueError, TypeError)
RerankCaught == {"ValueError", "TypeError"}

\* RerankTries without the `continue` for timeless results
RerankTriesTimelessToo(result) == Truthy(result.chunk_date)

\* whether the loop body reaches the try block for this result
RerankTries(result) == ~result.is_timeless /\ Truthy(result.chunk_date)

\* lines 264-286: the score of one result after the loop body
AdjustedScore(result, now) ==
    IF ~RerankTries(result) THEN result.score
    ELSE IF RerankError(result.chunk_date) # "none" THEN result.score
    ELSE Scaled(result.score, Boost(DaysAgo(now, result.chunk_date.at)))

\* an exception leaves the loop body
RerankRaises(results) ==
    \E i \in DOMAIN results :
        /\ RerankTries(results[i])
        /\ RerankError(results[i].chunk_date) \notin RerankCaught \cup {"none"}

\* a sort that hands the list back as it got it
SortedByScoreDescNot(results) == results

\* x put behind every element of the descending list that scores >= x
RECURSIVE InsertDesc(_, _)
InsertDesc(sorted, x) ==
    IF sorted = <<>> THEN <<x>>
    ELSE IF sorted[1].score >= x.score
    THEN <<sorted[1]>> \o InsertDesc(Tail(sorted), x)
    ELSE <<x>> \o sorted

\* sorted(results, key=lambda x: x["score"], reverse=True): stable
RECURSIVE SortedByScoreDesc(_)
SortedByScoreDesc(results) ==
    IF results = <<>> THEN <<>>
    ELSE InsertDesc(SortedByScoreDesc(SubSeq(results, 1, Len(results) - 1)),
                    results[Len(results)])

\* _rerank_with_recency(results) when datetime.now() = now
RerankWithRecency(results, now) ==
    SortedByScoreDesc(
        [i \in DOMAIN results |->
            [results[i] EXCEPT !.score = AdjustedScore(results[i], now)]])

\* Today's midnight is tick 0; datetime.now() falls on today
Nows == {0, TicksPerDay - 1}

\* whole days before today's midnight
Ages == {-1, 0, 29, 30, 365, 366, 730}

NaiveTicks ==
    {0 - a * TicksPerDay : a \in Ages} \cup {1 - a * TicksPerDay : a \in {0, 30, 366}}

ChunkDates == {NoDate, EmptyDate, BadDate, Aware(0)} \cup {Naive(t) : t \in NaiveTicks}

Grades == {1, 2}

\* the results search can hand to re-ranking: in the store's order, by
\* descending score
RerankInputs ==
    LET Result(i, g, d, tl) ==
            [document_id |-> 1, chunk_index |-> i - 1, score |-> g * FactorDen,
             chunk_date |-> d, is_timeless |-> tl]
        Fields == Grades \X ChunkDates \X BOOLEAN
        Lists == UNION {[1..n -> Fields] : n \in 0..MaxResults}
    IN  {[i \in DOMAIN l |-> Result(i, l[i][1], l[i][2], l[i][3])] :
            l \in {m \in Lists : \A i \in 1..(Len(m) - 1) : m[i][1] >= m[i + 1][1]}}

NoRerank ==
    [called |-> FALSE, now |-> 0, input |-> <<>>, raised |-> FALSE, output |-> <<>>]

Rerank ==
    /\ ~rerank.called
    /\ rerank' =
          IF RerankRaises(rerank.input)
          THEN [rerank EXCEPT !.called = TRUE, !.raised = TRUE]
          ELSE [rerank EXCEPT !.called = TRUE,
                              !.output = RerankWithRecency(rerank.input, rerank.now)]
    /\ UNCHANGED <<temp_files, requests>>
    /\ UNCHANGED <<message, nowYear, hints, detected, store, nextDocId, search,
                 company_hints, assign, app, collections, saving, docs, deletion>>

-----------------------------------------------------------------------------
(* Chunk-date assignment: DocumentIntelligenceService.assign_chunk_dates *)

\* EventDate with the last matching event of the list
EventDateOfLast(chunk, events, default) ==
    LET found == {k \in DOMAIN events :
                      Contains(Lower(chunk), Lower(events[k].title))}
    IN  IF found = {} THEN default
        ELSE events[CHOOSE k \in found : \A j \in found : j <= k].date

\* lines 147-151 and 155-158: the date of the first event, in list order,
\* whose lower-cased title occurs in the lower-cased chunk; else the default
EventDate(chunk, events, default) ==
    LET found == {k \in DOMAIN events :
                      Contains(Lower(chunk), Lower(events[k].title))}
    IN  IF found = {} THEN default ELSE events[Min(found)].date

\* assign_chunk_dates that returns entries for the dated chunks only
AssignChunkDatesDatedOnly(chunks, doc_extraction) ==
    LET Entry(i) ==
            [chunk_index |-> i - 1,
             chunk_date |->
                IF doc_extraction.document_type \in {"email_thread", "meeting_notes"}
                THEN EventDate(chunks[i], doc_extraction.events,
                               doc_extraction.primary_date)
                ELSE doc_extraction.primary_date,
             is_timeless |-> doc_extraction.is_timeless]
        IsDated(entry) == Truthy(entry.chunk_date)
    IN  SelectSeq([i \in DOMAIN chunks |-> Entry(i)], IsDated)

\* lines 135-162: one entry per chunk, in the order of the chunks
AssignChunkDates(chunks, doc_extraction) ==
    [i \in DOMAIN chunks |->
        [chunk_index |-> i - 1,
         chunk_date |->
            IF doc_extraction.document_type \in {"email_thread", "meeting_notes"}
            THEN EventDate(chunks[i], doc_extraction.events,
                           doc_extraction.primary_date)
            ELSE doc_extraction.primary_date,
         is_timeless |-> doc_extraction.is_timeless]]

KickoffCall == <<"K","i","c","k","o","f","f"," ","c","a","l","l">>
KickoffTitle == <<"k","i","c","k","o","f","f">>
Budget == <<"b","u","d","g","e","t">>
BudgetTitle == <<"B","U","D","G","E","T">>
KickoffBudget == <<"K","i","c","k","o","f","f"," ","b","u","d","g","e","t">>

\* The search window of the model, in ticks before today's midnight
RangeStart == 0 - (BoostWindowDays + 1) * TicksPerDay
RangeEnd == 0 - TicksPerDay

\* A DocumentExtraction (schemas.py), without its name and summary
Extraction(type, timeless, date, companies, events) ==
    [document_type |-> type, is_timeless |-> timeless, primary_date |-> date,
     date_uncertain |-> FALSE, companies |-> companies, people |-> {},
     events |-> events]

\* The inputs of the direct calls: up to MaxChunks chunks, and an extraction
AssignChunks ==
    UNION {[1..n -> {KickoffCall, Budget, KickoffBudget}] : n \in 0..MaxChunks}

AssignExtractions ==
    {Extraction(type, timeless, date, {}, events) :
        type \in {"email_thread", "meeting_notes", "report"},
        timeless \in BOOLEAN,
        date \in {NoDate, Naive(RangeStart)},
        events \in {<<>>,
                    <<[title |-> KickoffTitle, date |-> Naive(RangeEnd)]>>,
                    <<[title |-> BudgetTitle, date |-> BadDate],
                      [title |-> KickoffTitle, date |-> Naive(RangeEnd)]>>}}

NoAssign ==
    [called |-> FALSE, chunks |-> <<>>,
     doc_extraction |-> Extraction("other", FALSE, NoDate, {}, <<>>),
     output |-> <<>>]

AssignChunkDatesCall ==
    /\ ~assign.called
    /\ assign' = [assign EXCEPT
                     !.called = TRUE,
                     !.output = AssignChunkDates(assign.chunks,
                                                 assign.doc_extraction)]
    /\ UNCHANGED <<temp_files, requests>>
    /\ UNCHANGED <<message, nowYear, hints, detected, store, nextDocId, search,
                   rerank, company_hints, app, collections, saving, docs, deletion>>

-----------------------------------------------------------------------------
(* The chunk store: KnowledgeBaseService.index_document_with_metadata *)

\* LocalEmbeddings: the vector of a text.  The embedder is an external model;
\* vectors are grades 1, 2 and the similarity of two vectors is their product.
Embed(text) == IF text = Budget THEN 1 ELSE 2

\* aembed_query(query): the one query of the model
QueryVector == 2

\* Qdrant's cosine score of a point for the query, in FactorDen-ths
Score(query_embedding, vector) == query_embedding * vector * FactorDen

\* lines 135-162: the points of one document
PointsOf(document_id, chunks, extraction) ==
    LET chunk_dates == AssignChunkDates(chunks, extraction)
    IN  [i \in DOMAIN chunks |->
            [document_id |-> document_id,
             chunk_index |-> i - 1,
             text |-> chunks[i],
             vector |-> Embed(chunks[i]),
             chunk_date |-> IF i <= Len(chunk_dates)
                            THEN chunk_dates[i].chunk_date
                            ELSE NoDate,
             is_timeless |-> IF i <= Len(chunk_dates)
                             THEN chunk_dates[i].is_timeless
                             ELSE extraction.is_timeless,
             companies |-> extraction.companies]]

\* settings.embedding_dimensions: the vector size the collection is made with
EmbeddingDimensions == 384

\* the sizes of the vectors that settings.embedding_model can produce: the
\* configured size, and the size of a larger sentence-transformers model
EmbedderDimensions == {EmbeddingDimensions, 2 * EmbeddingDimensions}

\* settings.qdrant_collection_name
CollectionName == "knowledge_base"

\* The application before its startup.  `client` tells whether the service's
\* _client is set; model_dimensions is the size of the embedder's vectors.
NoApp ==
    [started |-> FALSE, client |-> FALSE, model_dimensions |-> EmbeddingDimensions]

\* main.py lifespan, up to its yield: directories and database tables
Lifespan ==
    /\ ~app.started
    /\ app' = [app EXCEPT !.started = TRUE]
    /\ UNCHANGED <<temp_files, requests>>
    /\ UNCHANGED <<message, nowYear, hints, detected, store, nextDocId, search,
                   rerank, company_hints, assign, collections, saving, docs, deletion>>

\* lines 60-72, the points of the collection afterwards: create_collection
\* makes an empty collection when there is none of that name
EnsureCollection(names, points) ==
    IF CollectionName \notin names THEN <<>> ELSE points

\* a client property that makes the collection anew at every read
ClientRecreates(a, names, points) ==
    [app |-> [a EXCEPT !.client = TRUE],
     collections |-> names \cup {CollectionName},
     store |-> <<>>]

\* lines 41-49, `self.client`: the service, the storage's collections and the
\* points after the property is read
Client(a, names, points) ==
    IF a.client
    THEN [app |-> a, collections |-> names, store |-> points]
    ELSE [app |-> [a EXCEPT !.client = TRUE],
          collections |-> names \cup {CollectionName},
          store |-> EnsureCollection(names, points)]

\* The documents that get saved: chunk_text's chunks and what the LLM returns
\* when its call succeeds
Uploads ==
    {[chunks |-> <<Budget>>,
      extraction |-> Extraction("report", FALSE, d, {"Acme"}, <<>>)] :
        d \in {Naive(RangeStart - 1), Naive(RangeEnd),
               BadDate, Aware(RangeStart - TicksPerDay)}}
    \cup
    {[chunks |-> <<KickoffCall>>,
      extraction |-> Extraction("report", FALSE, Naive(RangeEnd + 1), {"Acme"}, <<>>)]}
    \cup
    {[chunks |-> <<KickoffCall>>,
      extraction |-> Extraction("notes", tl, NoDate, {"Acme"}, <<>>)] :
        tl \in BOOLEAN}
    \cup
    {[chunks |-> <<KickoffCall>>,
      extraction |-> Extraction("notes", FALSE, EmptyDate, {"Acme"}, <<>>)]}
    \cup
    {[chunks |-> <<Budget>>,
      extraction |-> Extraction("contract", FALSE, Naive(RangeStart), cs, <<>>)] :
        cs \in {{}, {"Globex"}, {"Acme", "Globex"}}}
    \cup
    {[chunks |-> <<KickoffCall, Budget>>,
      extraction |-> Extraction("email_thread", FALSE, NoDate, {"Acme"},
                         <<[title |-> KickoffTitle, date |-> Naive(RangeEnd)]>>)]}
    \cup
    {[chunks |-> <<>>,
      extraction |-> Extraction("other", TRUE, NoDate, {}, <<>>)]}

\* lines 109-121: _fallback_extraction
FallbackExtraction ==
    [document_type |-> "other", is_timeless |-> FALSE, primary_date |-> NoDate,
     date_uncertain |-> TRUE, companies |-> {}, people |-> {}, events |-> <<>>]

\* How structured_llm.ainvoke ends: it returns, or it raises an Exception
LLMOutcomes == {"ok", "Exception"}

\* a call of the LLM without its except clause
ExtractCaughtNothing == {}

\* line 96: except Exception
ExtractCaught == {"Exception"}

\* lines 93-98: what extract_document_metadata returns
ExtractDocumentMetadataOf(llm_result, outcome) ==
    IF outcome = "ok" THEN llm_result ELSE FallbackExtraction

\* The save_document request in flight.  After the request, document_id,
\* llm_failed, indexed and error tell how the last one went.
NoSaving ==
    [active |-> FALSE, document_id |-> 0, chunks |-> <<>>,
     extraction |-> FallbackExtraction, llm_failed |-> FALSE,
     indexed |-> FALSE, error |-> "none"]

\* save_document up to its await of db.flush (documents.py lines 101-148):
\* the metadata extraction, and the id the database gives the new row
ExtractDocumentMetadata ==
    /\ app.started
    /\ ~saving.active
    /\ ~search.called
    /\ nextDocId <= MaxDocs
    /\ \E u \in Uploads, outcome \in LLMOutcomes :
           saving' =
               IF outcome \in ExtractCaught \cup {"ok"}
               THEN [NoSaving EXCEPT
                        !.active = TRUE,
                        !.document_id = nextDocId,
                        !.chunks = u.chunks,
                        !.extraction = ExtractDocumentMetadataOf(u.extraction, outcome),
                        !.llm_failed = (outcome # "ok")]
               ELSE [NoSaving EXCEPT
                        !.document_id = nextDocId,
                        !.llm_failed = TRUE,
                        !.error = outcome]
    /\ nextDocId' = nextDocId + 1
    /\ UNCHANGED <<temp_files, requests>>
    /\ UNCHANGED <<message, nowYear, hints, detected, store, search, rerank,
                   company_hints, assign, app, collections, docs, deletion>>

\* an upsert that stores the first point of the batch only
UpsertedFirstOnly(points, batch) == points \o SubSeq(batch, 1, 1)

\* line 165: client.upsert, one call with all the points of the document
Upserted(points, batch) == points \o batch

\* the row of documents and of document_metadata that save_document commits
Row(chunk_count, extraction) ==
    [chunk_count |-> chunk_count, is_indexed |-> TRUE,
     date_uncertain |-> extraction.date_uncertain]

\* The rest of save_document (documents.py lines 150-205):
\* index_document_with_metadata(document_id, filename, text, extraction) and
\* the commit.  An upsert of vectors that are not of the collection's size
\* raises, and the request ends without its commit.
IndexDocument ==
    /\ saving.active
    /\ ~search.called
    /\ IF saving.chunks = <<>>
       THEN /\ docs' = (saving.document_id :> Row(0, saving.extraction)) @@ docs
            /\ saving' = [NoSaving EXCEPT !.document_id = saving.document_id,
                                          !.llm_failed = saving.llm_failed,
                                          !.indexed = TRUE]
            /\ UNCHANGED <<app, collections, store>>
       ELSE LET c == Client(app, collections, store)
                points == PointsOf(saving.document_id, saving.chunks,
                                   saving.extraction)
            IN  /\ app' = c.app
                /\ collections' = c.collections
                /\ IF app.model_dimensions # EmbeddingDimensions
                   THEN /\ store' = c.store
                        /\ docs' = docs
                        /\ saving' = [NoSaving EXCEPT
                                         !.document_id = saving.document_id,
                                         !.llm_failed = saving.llm_failed,
                                         !.error = "dimension"]
                   ELSE /\ store' = Upserted(c.store, points)
                        /\ docs' = (saving.document_id
                                        :> Row(Len(saving.chunks), saving.extraction))
                                   @@ docs
                        /\ saving' = [NoSaving EXCEPT
                                         !.document_id = saving.document_id,
                                         !.llm_failed = saving.llm_failed,
                                         !.indexed = TRUE]
    /\ UNCHANGED <<temp_files, requests>>
    /\ UNCHANGED <<message, nowYear, hints, detected, nextDocId, search, rerank,
                   company_hints, assign, deletion>>

\* a delete that removes the first chunk of the document only
DeletedFirstChunkOnly(points, document_id) ==
    LET Stays(point) == point.document_id # document_id \/ point.chunk_index # 0
    IN  SelectSeq(points, Stays)

\* knowledge_base.py lines 293-305: client.delete with the filter
\* document_id = <id>; the points that stay
Deleted(points, document_id) ==
    LET Stays(point) == point.document_id # document_id
    IN  SelectSeq(points, Stays)

\* The last delete request: the document and how many points it removed
NoDeletion == [called |-> FALSE, document_id |-> 0, removed |-> 0]

\* documents.py delete_document for a document that has its row (any other id
\* ends in 404 and changes nothing): the chunks, then the row
DeleteDocument ==
    /\ app.started
    /\ ~search.called
    /\ \E document_id \in DOMAIN docs :
           LET c == Client(app, collections, store)
           IN  /\ app' = c.app
               /\ collections' = c.collections
               /\ store' = Deleted(c.store, document_id)
               /\ docs' = [d \in DOMAIN docs \ {document_id} |-> docs[d]]
               /\ deletion' = [called |-> TRUE, document_id |-> document_id,
                               removed |-> Len(c.store)
                                              - Len(Deleted(c.store, document_id))]
    /\ UNCHANGED <<temp_files, requests>>
    /\ UNCHANGED <<message, nowYear, hints, detected, nextDocId, search, rerank,
                   company_hints, assign, saving>>

-----------------------------------------------------------------------------
(* Concurrent requests: save_document and delete_document, step by step *)

\* The uploads that wait in _temp_files, by upload id: the chunks of the text
\* and what extract_document_metadata returns for it
UploadedFiles ==
    [upload_id \in 1..MaxUploads |->
        IF upload_id % 2 = 1
        THEN [chunks |-> <<KickoffCall, Budget>>,
              extraction |-> Extraction("email_thread", FALSE, NoDate, {"Acme"},
                                 <<[title |-> KickoffTitle, date |-> Naive(RangeEnd)]>>)]
        ELSE [chunks |-> <<Budget>>,
              extraction |-> Extraction("report", FALSE, Naive(RangeEnd), {"Acme"}, <<>>)]]

\* A request slot that no request has taken.  Of a request, pc is the await
\* it stands at or how it ended; after_done tells that it began after a save
\* of the same upload had returned.
NoRequest ==
    [kind |-> "none", pc |-> "idle", upload_id |-> 0, document_id |-> 0,
     after_done |-> FALSE]

NoRequests == [r \in 1..MaxRequests |-> NoRequest]

\* the next request takes the first free slot
IsFree(r) ==
    /\ requests[r].kind = "none"
    /\ r > 1 => requests[r - 1].kind # "none"

\* SQLite has one writer: a session that has flushed holds the write lock of
\* the database until it commits or rolls back
HoldsWriteLock(request) ==
    request.kind = "save" /\ request.pc \in {"flushed", "indexed"}

\* How an awaited call of an external service ends: it returns, or it raises
AwaitOutcomes == {"ok", "Exception"}

\* the row that save_document commits: stored_file_path holds the upload id
\* as the directory of the stored file (documents.py lines 123-134)
SavedRow(upload_id, chunk_count, extraction) ==
    [chunk_count |-> chunk_count, is_indexed |-> TRUE,
     date_uncertain |-> extraction.date_uncertain,
     stored_file_path |-> upload_id]

\* documents.py lines 101-111: get_temp_file, 404 when the upload is not
\* there, else on to the await of extract_document_metadata
SaveBegin(r) ==
    /\ IsFree(r)
    /\ \E upload_id \in 1..MaxUploads :
           requests' = [requests EXCEPT ![r] =
               [kind |-> "save",
                pc |-> IF upload_id \in temp_files THEN "extracting"
                                                   ELSE "not_found",
                upload_id |-> upload_id,
                document_id |-> 0,
                after_done |-> \E q \in 1..MaxRequests :
                                  /\ requests[q].kind = "save"
                                  /\ requests[q].upload_id = upload_id
                                  /\ requests[q].pc = "done"]]
    /\ UNCHANGED <<temp_files, store, docs, nextDocId>>
    /\ UNCHANGED <<message, nowYear, hints, detected, search, rerank,
                   company_hints, assign, app, collections, saving, deletion>>

\* documents.py lines 113-148: the Document row is added and flushed, and the
\* database gives it its id
SaveFlush(r) ==
    /\ requests[r].kind = "save"
    /\ requests[r].pc = "extracting"
    /\ \A q \in 1..MaxRequests : ~HoldsWriteLock(requests[q])
    /\ requests' = [requests EXCEPT ![r].pc = "flushed",
                                    ![r].document_id = nextDocId]
    /\ nextDocId' = nextDocId + 1
    /\ UNCHANGED <<temp_files, store, docs>>
    /\ UNCHANGED <<message, nowYear, hints, detected, search, rerank,
                   company_hints, assign, app, collections, saving, deletion>>

\* documents.py lines 150-187: index_document_with_metadata; the embedding
\* and the upsert succeed, or one of them raises and the request ends, its
\* transaction rolled back
SaveIndex(r) ==
    /\ requests[r].kind = "save"
    /\ requests[r].pc = "flushed"
    /\ \E outcome \in AwaitOutcomes :
           IF outcome = "ok"
           THEN /\ store' = Upserted(store,
                                PointsOf(requests[r].document_id,
                                    UploadedFiles[requests[r].upload_id].chunks,
                                    UploadedFiles[requests[r].upload_id].extraction))
                /\ requests' = [requests EXCEPT ![r].pc = "indexed"]
           ELSE /\ store' = store
                /\ requests' = [requests EXCEPT ![r].pc = "failed"]
    /\ UNCHANGED <<temp_files, docs, nextDocId>>
    /\ UNCHANGED <<message, nowYear, hints, detected, search, rerank,
                   company_hints, assign, app, collections, saving, deletion>>

\* documents.py lines 189-192: chunk_count, is_indexed and db.commit(); the
\* commit succeeds, or it raises and the session is closed without it
SaveCommit(r) ==
    /\ requests[r].kind = "save"
    /\ requests[r].pc = "indexed"
    /\ \E outcome \in AwaitOutcomes :
           IF outcome = "ok"
           THEN /\ docs' = (requests[r].document_id
                               :> SavedRow(requests[r].upload_id,
                                      Len(UploadedFiles[requests[r].upload_id].chunks),
                                      UploadedFiles[requests[r].upload_id].extraction))
                           @@ docs
                /\ requests' = [requests EXCEPT ![r].pc = "committed"]
           ELSE /\ docs' = docs
                /\ requests' = [requests EXCEPT ![r].pc = "failed"]
    /\ UNCHANGED <<temp_files, store, nextDocId>>
    /\ UNCHANGED <<message, nowYear, hints, detected, search, rerank,
                   company_hints, assign, app, collections, saving, deletion>>

\* documents.py lines 194-205: the refresh, remove_temp_file and the response
SaveReturn(r) ==
    /\ requests[r].kind = "save"
    /\ requests[r].pc = "committed"
    /\ temp_files' = temp_files \ {requests[r].upload_id}
    /\ requests' = [requests EXCEPT ![r].pc = "done"]
    /\ UNCHANGED <<store, docs, nextDocId>>
    /\ UNCHANGED <<message, nowYear, hints, detected, search, rerank,
                   company_hints, assign, app, collections, saving, deletion>>

\* documents.py lines 262-283 for a document that has its row (any other id
\* ends in 404): the select, kb.delete_document and db.delete
DeleteChunks(r) ==
    /\ IsFree(r)
    /\ \E document_id \in DOMAIN docs :
           /\ store' = Deleted(store, document_id)
           /\ requests' = [requests EXCEPT ![r] =
                  [NoRequest EXCEPT !.kind = "delete", !.pc = "deleting",
                                    !.document_id = document_id]]
    /\ UNCHANGED <<temp_files, docs, nextDocId>>
    /\ UNCHANGED <<message, nowYear, hints, detected, search, rerank,
                   company_hints, assign, app, collections, saving, deletion>>

\* documents.py line 285: db.commit() of the delete; it succeeds, or it
\* raises (for one, when another request has deleted the row meanwhile) and
\* the row stays as it is
DeleteCommit(r) ==
    /\ requests[r].kind = "delete"
    /\ requests[r].pc = "deleting"
    /\ \A q \in 1..MaxRequests : ~HoldsWriteLock(requests[q])
    /\ \E outcome \in AwaitOutcomes :
           IF outcome = "ok" /\ requests[r].document_id \in DOMAIN docs
           THEN /\ docs' = [d \in DOMAIN docs \ {requests[r].document_id}
                               |-> docs[d]]
                /\ requests' = [requests EXCEPT ![r].pc = "done"]
           ELSE /\ docs' = docs
                /\ requests' = [requests EXCEPT ![r].pc = "failed"]
    /\ UNCHANGED <<temp_files, store, nextDocId>>
    /\ UNCHANGED <<message, nowYear, hints, detected, search, rerank,
                   company_hints, assign, app, collections, saving, deletion>>

-----------------------------------------------------------------------------
(* Retrieval: KnowledgeBaseService.search *)

\* lines 190-208: Filter(must=[...]), one condition for document_ids and one
\* condition per company
MustMatch(point, document_ids, companies) ==
    /\ document_ids # {} => point.document_id \in document_ids
    /\ \A company \in companies : company \in point.companies

\* a fetch limit that is top_k whether or not the results get re-ranked
FetchLimitTopK(top_k, prioritize_recent) == top_k

\* line 211
FetchLimit(top_k, prioritize_recent) ==
    IF prioritize_recent THEN top_k * 2 ELSE top_k

\* the first n elements of s: s[:n] for n >= 0
Take(s, n) == SubSeq(s, 1, MinOf(n, Len(s)))

\* lines 224-234: a hit as a result
Formatted(point, query_embedding) ==
    [document_id |-> point.document_id,
     chunk_index |-> point.chunk_index,
     text |-> point.text,
     score |-> Score(query_embedding, point.vector),
     chunk_date |-> point.chunk_date,
     is_timeless |-> point.is_timeless,
     companies |-> point.companies]

\* client.query_points: the points that pass the filter, by descending score
\* (equal scores in insertion order), cut to the limit
QueryPoints(points, query_embedding, document_ids, companies, limit) ==
    LET Passes(point) == MustMatch(point, document_ids, companies)
        candidates == SelectSeq(points, Passes)
    IN  Take(SortedByScoreDesc(
                 [i \in DOMAIN candidates |->
                     Formatted(candidates[i], query_embedding)]),
             limit)

Supplied(bound) == bound.kind # "none"

\* The exception the try block of lines 239-244 raises for this result
FilterError(result, date_start, date_end) ==
    IF ~Parses(result.chunk_date) THEN "ValueError"
    ELSE IF result.chunk_date.kind = "aware"
            /\ (Supplied(date_start) \/ Supplied(date_end))
    THEN "TypeError"
    ELSE "none"

\* line 245: except (ValueError, TypeError)
FilterCaught == {"ValueError", "TypeError"}

\* InsideBounds with both bounds exclusive
InsideBoundsExclusive(at, date_start, date_end) ==
    /\ ~(Supplied(date_start) /\ at <= date_start.at)
    /\ ~(Supplied(date_end) /\ at >= date_end.at)

\* lines 241-244: neither `continue` is taken
InsideBounds(at, date_start, date_end) ==
    /\ ~(Supplied(date_start) /\ at < date_start.at)
    /\ ~(Supplied(date_end) /\ at > date_end.at)

\* UndatedKept without the test of is_timeless
UndatedKeptTimelessIgnored(result, date_start, date_end, include_timeless) ==
    ~(~include_timeless /\ (Supplied(date_start) \/ Supplied(date_end)))

\* lines 247-250: the result has no chunk_date and is not skipped
UndatedKept(result, date_start, date_end, include_timeless) ==
    ~(/\ ~include_timeless
      /\ ~result.is_timeless
      /\ (Supplied(date_start) \/ Supplied(date_end)))

\* lines 236-252: the result reaches formatted_results.append
Kept(result, date_start, date_end, include_timeless) ==
    IF Truthy(result.chunk_date)
    THEN IF FilterError(result, date_start, date_end) # "none" THEN TRUE
         ELSE InsideBounds(result.chunk_date.at, date_start, date_end)
    ELSE UndatedKept(result, date_start, date_end, include_timeless)

\* an exception leaves the loop of lines 223-252
FilterRaises(hits, date_start, date_end) ==
    \E i \in DOMAIN hits :
        /\ Truthy(hits[i].chunk_date)
        /\ FilterError(hits[i], date_start, date_end) \notin FilterCaught \cup {"none"}

\* search without its final slice
NotTruncated(results, top_k) == results

\* line 258: formatted_results[:top_k]
Truncated(results, top_k) == Take(results, top_k)

NoSearch ==
    [called |-> FALSE, raised |-> FALSE, top_k |-> 0, document_ids |-> {},
     date_start |-> NoDate, date_end |-> NoDate, prioritize_recent |-> FALSE,
     companies |-> {}, include_timeless |-> TRUE, now |-> 0,
     fetch_limit |-> 0, hits |-> <<>>, formatted |-> <<>>, ranked |-> <<>>,
     results |-> <<>>, abandoned |-> FALSE, dimension_error |-> FALSE]

\* search(...) on the points, when datetime.now() = now during re-ranking
SearchOf(points, top_k, document_ids, date_start, date_end, prioritize_recent, companies, include_timeless, now) ==
    LET fetch_limit == FetchLimit(top_k, prioritize_recent)
        hits == QueryPoints(points, QueryVector, document_ids, companies,
                            fetch_limit)
        KeptHere(r) == Kept(r, date_start, date_end, include_timeless)
        formatted == SelectSeq(hits, KeptHere)
        raised == \/ FilterRaises(hits, date_start, date_end)
                  \/ prioritize_recent /\ RerankRaises(formatted)
        ranked == IF prioritize_recent
                  THEN RerankWithRecency(formatted, now)
                  ELSE formatted
    IN  [called |-> TRUE, raised |-> raised, top_k |-> top_k,
         document_ids |-> document_ids, date_start |-> date_start,
         date_end |-> date_end, prioritize_recent |-> prioritize_recent,
         companies |-> companies, include_timeless |-> include_timeless,
         now |-> now, fetch_limit |-> fetch_limit, hits |-> hits,
         formatted |-> IF raised THEN <<>> ELSE formatted,
         ranked |-> IF raised THEN <<>> ELSE ranked,
         results |-> IF raised THEN <<>> ELSE Truncated(ranked, top_k),
         abandoned |-> FALSE, dimension_error |-> FALSE]

CompanyHints == {{}, {"Acme"}, {"Acme", "Globex"}}

\* search(...) as far as its arguments: nothing was fetched
SearchCalled(top_k, document_ids, date_start, date_end, prioritize_recent, companies, include_timeless, now) ==
    [NoSearch EXCEPT
        !.called = TRUE, !.top_k = top_k, !.document_ids = document_ids,
        !.date_start = date_start, !.date_end = date_end,
        !.prioritize_recent = prioritize_recent, !.companies = companies,
        !.include_timeless = include_timeless, !.now = now]

\* One search request, the last step of a behaviour.  It is abandoned at its
\* await (line 188), before it reads self.client; or query_points raises
\* because the query vector is not of the collection's size; or it returns.
Search ==
    /\ app.started
    /\ ~search.called
    /\ \/ /\ search' = [NoSearch EXCEPT !.called = TRUE, !.abandoned = TRUE]
          /\ UNCHANGED <<app, collections, store>>
       \/ \E top_k \in 1..MaxTopK,
             document_ids \in {{}, {1}},
             date_start \in {NoDate, Naive(RangeStart)},
             date_end \in {NoDate, Naive(RangeEnd)},
             prioritize_recent \in BOOLEAN,
             companies \in CompanyHints,
             include_timeless \in BOOLEAN :
              LET c == Client(app, collections, store)
              IN  /\ app' = c.app
                  /\ collections' = c.collections
                  /\ store' = c.store
                  /\ search' =
                        IF app.model_dimensions # EmbeddingDimensions
                        THEN [SearchCalled(top_k, document_ids, date_start,
                                           date_end, prioritize_recent,
                                           companies, include_timeless, 0)
                                 EXCEPT !.fetch_limit =
                                            FetchLimit(top_k, prioritize_recent),
                                        !.dimension_error = TRUE]
                        ELSE SearchOf(c.store, top_k, document_ids, date_start,
                                      date_end, prioritize_recent, companies,
                                      include_timeless, 0)
    /\ UNCHANGED <<temp_files, requests>>
    /\ UNCHANGED <<message, nowYear, hints, detected, nextDocId, rerank,
                   company_hints, assign, saving, docs, deletion>>

-----------------------------------------------------------------------------
(* The specifications *)

\* Intent detection on every query of the model
InitIntent ==
    /\ message \in Queries
    /\ nowYear \in NowYears
    /\ hints = NoHints
    /\ detected = FALSE
    /\ store = <<>>
    /\ nextDocId = 1
    /\ search = NoSearch
    /\ rerank = NoRerank
    /\ company_hints = NoCompanyHints
    /\ assign = NoAssign
    /\ app = NoApp
    /\ collections = {}
    /\ saving = NoSaving
    /\ docs = <<>>
    /\ deletion = NoDeletion
    /\ temp_files = {}
    /\ requests = NoRequests

NextIntent == DetectTimeHints

SpecIntent == InitIntent /\ [][NextIntent]_vars

\* Intent detection on the queries about quarters
InitQuarters ==
    /\ message \in QuarterQueries
    /\ nowYear \in NowYears
    /\ hints = NoHints
    /\ detected = FALSE
    /\ store = <<>>
    /\ nextDocId = 1
    /\ search = NoSearch
    /\ rerank = NoRerank
    /\ company_hints = NoCompanyHints
    /\ assign = NoAssign
    /\ app = NoApp
    /\ collections = {}
    /\ saving = NoSaving
    /\ docs = <<>>
    /\ deletion = NoDeletion
    /\ temp_files = {}
    /\ requests = NoRequests

NextQuarters == DetectTimeHints

SpecQuarters == InitQuarters /\ [][NextQuarters]_vars

\* Time hints and company hints, as chat (lines 103-104) takes them from one
\* query
InitHints ==
    /\ message \in CompanyQueries
    /\ nowYear = Min(NowYears)
    /\ hints = NoHints
    /\ detected = FALSE
    /\ store = <<>>
    /\ nextDocId = 1
    /\ search = NoSearch
    /\ rerank = NoRerank
    /\ company_hints = NoCompanyHints
    /\ assign = NoAssign
    /\ app = NoApp
    /\ collections = {}
    /\ saving = NoSaving
    /\ docs = <<>>
    /\ deletion = NoDeletion
    /\ temp_files = {}
    /\ requests = NoRequests

NextHints == DetectTimeHints \/ ExtractCompanyHints

SpecHints == InitHints /\ [][NextHints]_vars

\* Chunk-date assignment on every chunk list and extraction of the model
InitAssign ==
    /\ message = <<>>
    /\ nowYear = Min(NowYears)
    /\ hints = NoHints
    /\ detected = FALSE
    /\ store = <<>>
    /\ nextDocId = 1
    /\ search = NoSearch
    /\ rerank = NoRerank
    /\ company_hints = NoCompanyHints
    /\ \E chunks \in AssignChunks, doc_extraction \in AssignExtractions :
           assign = [NoAssign EXCEPT !.chunks = chunks,
                                     !.doc_extraction = doc_extraction]
    /\ app = NoApp
    /\ collections = {}
    /\ saving = NoSaving
    /\ docs = <<>>
    /\ deletion = NoDeletion
    /\ temp_files = {}
    /\ requests = NoRequests

NextAssign == AssignChunkDatesCall

SpecAssign == InitAssign /\ [][NextAssign]_vars

\* Re-ranking on every result list of the model
InitRerank ==
    /\ message = <<>>
    /\ nowYear = Min(NowYears)
    /\ hints = NoHints
    /\ detected = FALSE
    /\ store = <<>>
    /\ nextDocId = 1
    /\ search = NoSearch
    /\ \E now \in Nows, input \in RerankInputs :
           rerank = [NoRerank EXCEPT !.now = now, !.input = input]
    /\ company_hints = NoCompanyHints
    /\ assign = NoAssign
    /\ app = NoApp
    /\ collections = {}
    /\ saving = NoSaving
    /\ docs = <<>>
    /\ deletion = NoDeletion
    /\ temp_files = {}
    /\ requests = NoRequests

NextRerank == Rerank

SpecRerank == InitRerank /\ [][NextRerank]_vars

\* The application from its start: saving, deleting and searching, from the
\* empty storage
Init ==
    /\ message = <<>>
    /\ nowYear = Min(NowYears)
    /\ hints = NoHints
    /\ detected = FALSE
    /\ store = <<>>
    /\ nextDocId = 1
    /\ search = NoSearch
    /\ rerank = NoRerank
    /\ company_hints = NoCompanyHints
    /\ assign = NoAssign
    /\ \E model_dimensions \in EmbedderDimensions :
           app = [NoApp EXCEPT !.model_dimensions = model_dimensions]
    /\ collections = {}
    /\ saving = NoSaving
    /\ docs = <<>>
    /\ deletion = NoDeletion
    /\ temp_files = {}
    /\ requests = NoRequests

Next ==
    \/ Lifespan
    \/ ExtractDocumentMetadata
    \/ IndexDocument
    \/ DeleteDocument
    \/ Search

Spec == Init /\ [][Next]_vars

\* Concurrent save and delete requests on a started service that has made
\* its client and its collection, after MaxUploads uploads
InitRequests ==
    /\ message = <<>>
    /\ nowYear = Min(NowYears)
    /\ hints = NoHints
    /\ detected = FALSE
    /\ store = <<>>
    /\ nextDocId = 1
    /\ search = NoSearch
    /\ rerank = NoRerank
    /\ company_hints = NoCompanyHints
    /\ assign = NoAssign
    /\ app = [NoApp EXCEPT !.started = TRUE, !.client = TRUE]
    /\ collections = {CollectionName}
    /\ saving = NoSaving
    /\ docs = <<>>
    /\ deletion = NoDeletion
    /\ temp_files = 1..MaxUploads
    /\ requests = NoRequests

NextRequests ==
    \E r \in 1..MaxRequests :
        \/ SaveBegin(r)
        \/ SaveFlush(r)
        \/ SaveIndex(r)
        \/ SaveCommit(r)
        \/ SaveReturn(r)
        \/ DeleteChunks(r)
        \/ DeleteCommit(r)

SpecRequests == InitRequests /\ [][NextRequests]_vars

-----------------------------------------------------------------------------
(* The claims about search, checked under Spec *)

SameChunk(a, b) == a.document_id = b.document_id /\ a.chunk_index = b.chunk_index

InResults(r, results) == \E j \in DOMAIN results : SameChunk(results[j], r)

\* C1: search returns at most top_k results, for every combination of its
\* parameters.
C1_AtMostTopK == search.called => Len(search.results) <= search.top_k

\* A search that re-ranked more than top_k surviving candidates and returned
\* exactly top_k of them.
C1_Witness ==
    /\ search.called
    /\ search.prioritize_recent
    /\ Len(search.formatted) > search.top_k
    /\ Len(search.results) = search.top_k

\* C2 as stated: with company hints, a chunk is a candidate if and only if its
\* companies overlap the hints.  (Every chunk of the collection that passes
\* the filter is fetched when the collection is no larger than the limit.)
C2_CompanyOverlap ==
    (/\ search.called
     /\ search.companies # {}
     /\ search.document_ids = {}
     /\ Len(store) <= search.fetch_limit)
        => \A i \in DOMAIN store :
               InResults(store[i], search.hits)
                   <=> store[i].companies \cap search.companies # {}

C4_UndatedRule ==
    search.called =>
        \A i \in DOMAIN search.hits :
            LET hit == search.hits[i]
            IN  hit.chunk_date.kind \in {"none", "empty"} =>
                    (~InResults(hit, search.formatted)
                        <=> /\ ~hit.is_timeless
                            /\ Supplied(search.date_start) \/ Supplied(search.date_end)
                            /\ ~search.include_timeless)

\* A search that dropped an undated chunk and kept an undated timeless one.
C4_Witness ==
    /\ search.called
    /\ \E i, j \in DOMAIN search.hits :
           /\ search.hits[i].chunk_date = NoDate
           /\ ~InResults(search.hits[i], search.formatted)
           /\ search.hits[j].chunk_date = NoDate
           /\ search.hits[j].is_timeless
           /\ InResults(search.hits[j], search.formatted)

-----------------------------------------------------------------------------
(* The claims about re-ranking, checked under SpecRerank *)

\* the result of the output that is input result i
Reranked(i) ==
    CHOOSE r \in Range(rerank.output) : SameChunk(r, rerank.input[i])

\* the whole days from the chunk's date to now
Age(i) ==
    CHOOSE d \in -2..800 :
        /\ d * TicksPerDay <= rerank.now - rerank.input[i].chunk_date.at
        /\ rerank.now - rerank.input[i].chunk_date.at < (d + 1) * TicksPerDay

Dated(i) ==
    ~rerank.input[i].is_timeless /\ rerank.input[i].chunk_date.kind = "naive"

\* C5: re-ranking never changes the score of a timeless result, whatever its
\* chunk_date.
C5_TimelessUntouched ==
    rerank.called =>
        /\ ~rerank.raised
        /\ \A i \in DOMAIN rerank.input :
               rerank.input[i].is_timeless =>
                   /\ InResults(rerank.input[i], rerank.output)
                   /\ Reranked(i).score = rerank.input[i].score

\* Re-ranking has run on a timeless result dated today and a timeless result
\* dated more than a year ago.
C5_Witness ==
    /\ rerank.called
    /\ \E i, j \in DOMAIN rerank.input :
           /\ rerank.input[i].is_timeless
           /\ rerank.input[i].chunk_date.kind = "naive"
           /\ DaysAgo(rerank.now, rerank.input[i].chunk_date.at) = 0
           /\ rerank.input[j].is_timeless
           /\ rerank.input[j].chunk_date.kind = "naive"
           /\ DaysAgo(rerank.now, rerank.input[j].chunk_date.at) > PenaltyAfterDays

C7_PenaltyGrowsWithAge ==
    rerank.called =>
        \A i, j \in DOMAIN rerank.input :
            (/\ Dated(i) /\ Dated(j)
             /\ rerank.input[i].score = rerank.input[j].score
             /\ 365 < Age(i) /\ Age(i) < Age(j) /\ Age(j) <= 730)
                => Reranked(i).score > Reranked(j).score

\* C8: a result whose chunk_date does not parse keeps its score and stays in
\* the output, and re-ranking does not raise.
C8_UnparseableKept ==
    rerank.called =>
        /\ ~rerank.raised
        /\ \A i \in DOMAIN rerank.input :
               rerank.input[i].chunk_date = BadDate =>
                   /\ InResults(rerank.input[i], rerank.output)
                   /\ Reranked(i).score = rerank.input[i].score

\* Re-ranking has run on a non-timeless result with an unparseable date and
\* moved a boosted result in front of it.
C8_Witness ==
    /\ rerank.called
    /\ Len(rerank.input) > 1
    /\ rerank.input[1].chunk_date = BadDate
    /\ ~rerank.input[1].is_timeless
    /\ ~SameChunk(rerank.output[1], rerank.input[1])

-----------------------------------------------------------------------------
(* The claims about intent detection, checked under SpecIntent *)

HasRecencyKeyword(msg) ==
    \E keyword \in RECENCY_KEYWORDS : Contains(Lower(msg), keyword)

HasMonthName(msg) == \E i \in DOMAIN MONTHS : Contains(Lower(msg), MONTHS[i])

HasYearToken(msg) == \E i \in 1..Len(msg) : YearMatchAt(msg, i)

HasQuarterPattern(msg) == \E i \in 1..Len(msg) : QuarterAt(msg, i)

NoTemporalCue(msg) ==
    /\ ~HasRecencyKeyword(msg)
    /\ ~HasMonthName(msg)
    /\ ~HasYearToken(msg)
    /\ ~HasQuarterPattern(msg)

\* C9: for a query with no recency keyword, no month name, no 20xx year token
\* and no Q1..Q4 pattern, the hints hold neither date_start nor date_end nor
\* prioritize_recent.
C9_NoCueNoHints ==
    (detected /\ NoTemporalCue(message))
        => DOMAIN hints \cap {"date_start", "date_end", "prioritize_recent"} = {}

\* A query with no temporal cue has been analysed, one that holds the digits
\* 2025 inside a longer word.
C9_Witness ==
    /\ detected
    /\ NoTemporalCue(message)
    /\ Contains(message, <<"x","2","0","2","5">>)

Q3_2025 == <<"Q","3"," ","2","0","2","5">>

IsQ3Of2025(h) ==
    /\ {"date_start", "date_end"} \subseteq DOMAIN h
    /\ h["date_start"] = DateTime(2025, 7, 1)
    /\ h["date_end"] = DateTime(2025, 10, 1)

\* C10 as stated: every query that contains "Q3 2025" and a month name gets
\* the range 2025-07-01 .. 2025-10-01, whatever else it contains.
C10_Original ==
    (detected /\ Contains(message, Q3_2025) /\ HasMonthName(message))
        => IsQ3Of2025(hints)

\* the leftmost place in the query where Q or q is followed by a digit 1..4
FirstQuarterPattern(msg) == Min({i \in 1..Len(msg) : QuarterAt(msg, i)})

\* C10, amended: a query that contains a month name and whose leftmost quarter
\* pattern is the Q3 of a "Q3 2025" gets the range 2025-07-01 .. 2025-10-01.
C10_FirstQuarterWins ==
    (/\ detected
     /\ HasMonthName(message)
     /\ HasQuarterPattern(message)
     /\ OccursAt(message, Q3_2025, FirstQuarterPattern(message)))
        => IsQ3Of2025(hints)

\* A query with a month name and a leading "Q3 2025" has been analysed in a
\* year other than 2025.
C10_Witness ==
    /\ detected
    /\ nowYear # 2025
    /\ HasMonthName(message)
    /\ HasQuarterPattern(message)
    /\ OccursAt(message, Q3_2025, FirstQuarterPattern(message))
    /\ IsQ3Of2025(hints)

\* the first month of the calendar that the query names
FirstMonthNamed(msg) ==
    Min({i \in DOMAIN MONTHS : Contains(Lower(msg), MONTHS[i])})

\* C11: for a query that names a month and has no quarter pattern, date_start
\* is the first day of that month in the current year and date_end the first
\* day of the following month, January 1 of the next year after December;
\* a year written in the query does not change this.  (Of several months
\* named, the month is the earliest of the calendar.)
C11_MonthRange ==
    (detected /\ HasMonthName(message) /\ ~HasQuarterPattern(message))
        => LET m == FirstMonthNamed(message)
           IN  /\ {"date_start", "date_end"} \subseteq DOMAIN hints
               /\ hints["date_start"] = DateTime(nowYear, m, 1)
               /\ hints["date_end"] = IF m = 12
                                      THEN DateTime(nowYear + 1, 1, 1)
                                      ELSE DateTime(nowYear, m + 1, 1)

\* A query that names December and the year 2025, and no other month, has
\* been analysed in 2026: its range ends on 2027-01-01.
C11_Witness ==
    /\ detected
    /\ nowYear = 2026
    /\ ~HasQuarterPattern(message)
    /\ HasMonthName(message)
    /\ FirstMonthNamed(message) = 12
    /\ HasYearToken(message)
    /\ hints["date_start"] = DateTime(2026, 12, 1)
    /\ hints["date_end"] = DateTime(2027, 1, 1)

-----------------------------------------------------------------------------
(* The claims about company hints, checked under SpecHints *)

RecentUpdatesFromAcme == Join(<<<<"r","e","c","e","n","t"," ","u","p","d","a","t","e","s">>, <<"f","r","o","m">>, <<"A","c","m","e">>>>)

\* phrase stands in msg behind one of the four prepositions and whitespace
FollowsPreposition(msg, phrase) ==
    \E preposition \in {<<"a","b","o","u","t">>, <<"a","t">>, <<"w","i","t","h">>, <<"f","o","r">>} :
        \E i \in 1..Len(msg), k \in 1..Len(msg) :
            /\ OccursAt(msg, preposition, i)
            /\ k > i + Len(preposition)
            /\ \A j \in (i + Len(preposition))..(k - 1) : IsSpace(msg[j])
            /\ OccursAt(msg, phrase, k)

\* C12: every company hint is a phrase that begins with a capital letter and
\* follows "about", "at", "with" or "for" in the query; no hint is returned
\* twice; and "recent updates from Acme" yields no company hint, and
\* prioritize_recent = TRUE from the time hints.
C12_HintsFollowPrepositions ==
    /\ company_hints.called =>
           /\ \A i \in DOMAIN company_hints.result :
                  /\ company_hints.result[i] # <<>>
                  /\ IsUpper(company_hints.result[i][1])
                  /\ FollowsPreposition(message, company_hints.result[i])
           /\ \A i, j \in DOMAIN company_hints.result :
                  i # j => company_hints.result[i] # company_hints.result[j]
           /\ message = RecentUpdatesFromAcme => company_hints.result = <<>>
    /\ (detected /\ message = RecentUpdatesFromAcme)
           => ("prioritize_recent" \in DOMAIN hints /\ hints["prioritize_recent"])

\* Both hint extractions have run on "recent updates from Acme".
C12_Witness ==
    /\ message = RecentUpdatesFromAcme
    /\ detected
    /\ company_hints.called
    /\ company_hints.result = <<>>
    /\ hints["prioritize_recent"]

-----------------------------------------------------------------------------
(* The claims about chunk-date assignment, checked under SpecAssign *)

\* the dates an entry for this chunk can carry: the document's primary date or
\* the date of an event whose title occurs in the chunk
DatesFor(chunk, doc_extraction) ==
    {doc_extraction.primary_date}
        \cup {doc_extraction.events[k].date :
                k \in {j \in DOMAIN doc_extraction.events :
                          Contains(Lower(chunk), Lower(doc_extraction.events[j].title))}}

\* C13: assign_chunk_dates on N chunks returns N entries, and entry i has
\* chunk_index i (counted from 0) and a date that belongs to chunk i.
C13_OneEntryPerChunk ==
    assign.called =>
        /\ Len(assign.output) = Len(assign.chunks)
        /\ \A i \in DOMAIN assign.output :
               /\ assign.output[i].chunk_index = i - 1
               /\ assign.output[i].chunk_date
                      \in DatesFor(assign.chunks[i], assign.doc_extraction)

\* assign_chunk_dates has run on as many chunks as the model allows, of an
\* email thread without a primary date in which only the last chunk matches
\* an event: the undated chunk has its entry too.
C13_Witness ==
    /\ assign.called
    /\ Len(assign.chunks) = MaxChunks
    /\ Len(assign.output) = MaxChunks
    /\ assign.output[1].chunk_date = NoDate
    /\ assign.output[MaxChunks].chunk_date = Naive(RangeEnd)

-----------------------------------------------------------------------------
(* The claims about saving, deleting and the storage, checked under Spec *)

\* the number of points of the document in the list
ChunksOf(points, document_id) ==
    Cardinality({i \in DOMAIN points : points[i].document_id = document_id})

\* C14: a step that deletes a document leaves in the store exactly the chunks
\* of the other documents, in their order, which for a document without
\* chunks is the store as it was; and a search made afterwards fetches and
\* returns chunks of documents that have their row only.
C14_DeleteRemovesTheDocument ==
    [][/\ \A d \in DOMAIN docs \ DOMAIN docs' :
              LET OfAnother(point) == point.document_id # d
              IN  /\ store' = SelectSeq(store, OfAnother)
                  /\ ChunksOf(store', d) = 0
                  /\ docs[d].chunk_count = 0 => store' = store
       /\ (search'.called /\ ~search.called) =>
              /\ \A i \in DOMAIN search'.hits :
                     search'.hits[i].document_id \in DOMAIN docs'
              /\ \A i \in DOMAIN search'.results :
                     search'.results[i].document_id \in DOMAIN docs'
      ]_vars

\* A document of two chunks was deleted while another document stayed, and
\* the search made afterwards returned chunks of that other document.
C14_Witness ==
    /\ deletion.called
    /\ deletion.removed = 2
    /\ DOMAIN docs # {}
    /\ search.called
    /\ search.results # <<>>

\* C15: in every state, and so whenever a search reads the store, the store
\* holds of each document either no chunk or all of its chunks, and it holds
\* no chunk of the document whose save is in flight; a search that fetches
\* the whole store sees the same.
C15_AllChunksOrNone ==
    /\ \A d \in 1..MaxDocs :
           \/ ChunksOf(store, d) = 0
           \/ d \in DOMAIN docs /\ ChunksOf(store, d) = docs[d].chunk_count
    /\ saving.active => ChunksOf(store, saving.document_id) = 0
    /\ (/\ search.called /\ ~search.abandoned /\ ~search.dimension_error
        /\ search.document_ids = {} /\ search.companies = {}
        /\ Len(store) <= search.fetch_limit)
           => \A d \in 1..MaxDocs : ChunksOf(search.hits, d) = ChunksOf(store, d)

\* A search ran while the save of a two-chunk document was in flight: it
\* fetched the chunks of an earlier document and none of the new one.
C15_Witness ==
    /\ saving.active
    /\ Len(saving.chunks) = 2
    /\ search.called
    /\ search.hits # <<>>
    /\ ChunksOf(search.hits, saving.document_id) = 0

\* C16: when the LLM call of a save fails, the failure does not end the
\* request; the extraction the request goes on with has date_uncertain = TRUE,
\* no primary date, is_timeless = FALSE and no companies, people or events;
\* and the request ends with the document indexed and its row committed,
\* unless the upsert itself fails.
C16_FallbackOnLLMFailure ==
    saving.llm_failed =>
        /\ saving.error # "Exception"
        /\ saving.active =>
               /\ saving.extraction.date_uncertain
               /\ saving.extraction.primary_date = NoDate
               /\ ~saving.extraction.is_timeless
               /\ saving.extraction.companies = {}
               /\ saving.extraction.people = {}
               /\ saving.extraction.events = <<>>
        /\ ~saving.active => (saving.indexed \/ saving.error = "dimension")
        /\ (saving.indexed /\ saving.document_id \in DOMAIN docs) =>
               /\ docs[saving.document_id].is_indexed
               /\ docs[saving.document_id].date_uncertain
               /\ ChunksOf(store, saving.document_id)
                      = docs[saving.document_id].chunk_count
               /\ \A i \in DOMAIN store :
                      store[i].document_id = saving.document_id =>
                          /\ store[i].chunk_date = NoDate
                          /\ ~store[i].is_timeless
                          /\ store[i].companies = {}

\* A save whose LLM call failed has ended: its two chunks are in the store and
\* its row says date_uncertain.
C16_Witness ==
    /\ saving.llm_failed
    /\ saving.indexed
    /\ saving.document_id \in DOMAIN docs
    /\ docs[saving.document_id].date_uncertain
    /\ ChunksOf(store, saving.document_id) = 2

\* a step in which a search request is made
IsSearchStep == ~search.called /\ search'.called

\* C17 as stated: a search changes nothing that persists in the storage.
C17_Original ==
    [][IsSearchStep => (store' = store /\ collections' = collections)]_vars

\* C17, amended: a search, whether it returns, fails or is abandoned, leaves
\* the chunks of the store as they were; it changes the storage only when it
\* is the first to read the client of a service whose storage has no
\* collection, and then by the empty collection it creates.
C17_SearchKeepsTheChunks ==
    [][IsSearchStep =>
          /\ store' = store
          /\ docs' = docs
          /\ collections' # collections =>
                 /\ ~app.client
                 /\ ~search'.abandoned
                 /\ store = <<>>
                 /\ collections' = collections \cup {CollectionName}
      ]_vars

\* A search was the first operation of the service: the storage now has the
\* collection, and it is empty.
C17_Witness ==
    /\ search.called
    /\ ~search.abandoned
    /\ nextDocId = 1
    /\ ~deletion.called
    /\ collections = {CollectionName}
    /\ store = <<>>

\* C18 as stated: when the embedder's vectors are not of the size the
\* collection is made with, the application does not get through its startup,
\* and no save or search request fails on the sizes.
C18_MismatchFatalAtStartup ==
    app.model_dimensions # EmbeddingDimensions =>
        /\ ~app.started
        /\ saving.error # "dimension"
        /\ ~search.dimension_error

\* C19: a search asks the store for 2 * top_k points when prioritize_recent is
\* set and for top_k otherwise, and gets that many if that many pass the
\* filter; the date post-filter runs on what was fetched, the re-ranking (when
\* asked for) on what the post-filter kept, and the cut to top_k comes last.
C19_FetchFilterRerankTruncate ==
    (search.called /\ ~search.abandoned /\ ~search.dimension_error) =>
        /\ search.fetch_limit = IF search.prioritize_recent
                                THEN 2 * search.top_k
                                ELSE search.top_k
        /\ Len(search.hits)
               = MinOf(search.fetch_limit,
                       Cardinality({i \in DOMAIN store :
                                       MustMatch(store[i], search.document_ids,
                                                 search.companies)}))
        /\ ~search.raised =>
               LET KeptHere(r) == Kept(r, search.date_start, search.date_end,
                                       search.include_timeless)
                   ranked == IF search.prioritize_recent
                             THEN RerankWithRecency(search.formatted, search.now)
                             ELSE search.formatted
               IN  /\ search.formatted = SelectSeq(search.hits, KeptHere)
                   /\ search.results
                          = SubSeq(ranked, 1, MinOf(search.top_k, Len(ranked)))

\* A search with prioritize_recent and top_k = 1 fetched two points, kept
\* both, and returned the one that re-ranking moved to the front: the cut came
\* after the re-ranking.
C19_Witness ==
    /\ search.called
    /\ search.prioritize_recent
    /\ search.top_k = 1
    /\ Len(search.hits) = 2
    /\ Len(search.formatted) = 2
    /\ Len(search.results) = 1
    /\ SameChunk(search.results[1], search.formatted[2])

\* C20 as stated: the date post-filter keeps a fetched candidate whose
\* chunk_date does not parse exactly when it would keep an undated one: it
\* drops it when a bound is supplied, include_timeless is false and the
\* candidate is not timeless.
C20_UnparseableLikeUndated ==
    (search.called /\ ~search.raised) =>
        \A i \in DOMAIN search.hits :
            LET hit == search.hits[i]
            IN  hit.chunk_date = BadDate =>
                    (~InResults(hit, search.formatted)
                        <=> /\ ~hit.is_timeless
                            /\ Supplied(search.date_start) \/ Supplied(search.date_end)
                            /\ ~search.include_timeless)

-----------------------------------------------------------------------------
(* The claims about the order of the results, checked under Spec *)

\* output holds the results of input, each once and with the score the loop
\* of re-ranking leaves it with, by non-increasing score
IsRerankingOf(output, input, now) ==
    /\ Len(output) = Len(input)
    /\ \A i \in DOMAIN input :
           Cardinality({j \in DOMAIN output :
                           output[j] = [input[i] EXCEPT
                                           !.score = AdjustedScore(input[i], now)]})
               = Cardinality({j \in DOMAIN input : input[j] = input[i]})
    /\ \A j \in 1..(Len(output) - 1) : output[j].score >= output[j + 1].score

\* C21: the list re-ranking returns holds exactly the results it was given,
\* none added, dropped or doubled, by non-increasing adjusted score; and the
\* list a search with prioritize_recent returns is by non-increasing score.
C21_RerankPermutesAndSorts ==
    (/\ search.called /\ search.prioritize_recent
     /\ ~search.abandoned /\ ~search.dimension_error /\ ~search.raised) =>
        /\ IsRerankingOf(search.ranked, search.formatted, search.now)
        /\ \A j \in 1..(Len(search.results) - 1) :
               search.results[j].score >= search.results[j + 1].score
        /\ \A j \in DOMAIN search.results : InResults(search.results[j], search.formatted)

\* A search re-ranked three results or more and the boost changed their
\* order: the result that was first is no longer first.
C21_Witness ==
    /\ search.called
    /\ search.prioritize_recent
    /\ Len(search.formatted) >= 3
    /\ Len(search.ranked) = Len(search.formatted)
    /\ ~SameChunk(search.ranked[1], search.formatted[1])
    /\ Len(search.results) = 2

-----------------------------------------------------------------------------
(* More claims about intent detection, checked under SpecIntent *)

MonthsNamed(msg) == {i \in DOMAIN MONTHS : Contains(Lower(msg), MONTHS[i])}

\* the place where the name of month i stands leftmost in the query
MonthPosition(msg, i) ==
    Min({p \in 1..Len(msg) : OccursAt(Lower(msg), MONTHS[i], p)})

\* the month whose name stands leftmost in the query
FirstMonthInText(msg) ==
    CHOOSE i \in MonthsNamed(msg) :
        \A j \in MonthsNamed(msg) : MonthPosition(msg, i) <= MonthPosition(msg, j)

\* the range of month m of the year
IsMonthRange(h, year, m) ==
    /\ {"date_start", "date_end"} \subseteq DOMAIN h
    /\ h["date_start"] = DateTime(year, m, 1)
    /\ h["date_end"] = IF m = 12 THEN DateTime(year + 1, 1, 1)
                                ELSE DateTime(year, m + 1, 1)

\* C22 as stated: for a query that names several months and has no quarter
\* pattern, the range is that of the month that stands first in the text.
C22_Original ==
    (/\ detected
     /\ Cardinality(MonthsNamed(message)) > 1
     /\ ~HasQuarterPattern(message))
        => IsMonthRange(hints, nowYear, FirstMonthInText(message))

\* C22, amended: for a query that names several months and has no quarter
\* pattern, the range is that of the month that comes first in the calendar,
\* January to December, wherever its name stands in the text; the other
\* months named do not count.
C22_CalendarFirstMonthWins ==
    (/\ detected
     /\ Cardinality(MonthsNamed(message)) > 1
     /\ ~HasQuarterPattern(message))
        => IsMonthRange(hints, nowYear, Min(MonthsNamed(message)))

\* A query that names December before March has been analysed: its range is
\* March.
C22_Witness ==
    /\ detected
    /\ ~HasQuarterPattern(message)
    /\ {3, 12} \subseteq MonthsNamed(message)
    /\ FirstMonthInText(message) = 12
    /\ IsMonthRange(hints, nowYear, 3)

\* the year of the leftmost 20xx token of the query
FirstYearToken(msg) ==
    YearValue(msg, Min({i \in 1..Len(msg) : YearMatchAt(msg, i)}))

\* C23: a query with a 20xx year token, no month name and no quarter pattern
\* gets the range from January 1 of that year to January 1 of the next; when
\* the query names a month as well, the year token changes nothing and the
\* range is that month of the current year.
C23_YearRange ==
    (detected /\ HasYearToken(message) /\ ~HasQuarterPattern(message)) =>
        /\ {"date_start", "date_end"} \subseteq DOMAIN hints
        /\ ~HasMonthName(message) =>
               /\ hints["date_start"] = DateTime(FirstYearToken(message), 1, 1)
               /\ hints["date_end"] = DateTime(FirstYearToken(message) + 1, 1, 1)
        /\ HasMonthName(message) =>
               IsMonthRange(hints, nowYear, Min(MonthsNamed(message)))

\* A query that names March and the year 2025 has been analysed in 2026: its
\* range is March 2026.
C23_Witness ==
    /\ detected
    /\ nowYear = 2026
    /\ HasYearToken(message)
    /\ FirstYearToken(message) = 2025
    /\ ~HasQuarterPattern(message)
    /\ MonthsNamed(message) = {3}
    /\ IsMonthRange(hints, 2026, 3)

-----------------------------------------------------------------------------
(* The claim about quarters, checked under SpecQuarters *)

\* the digit of the leftmost quarter pattern
FirstQuarter(msg) == DigitVal(msg[FirstQuarterPattern(msg) + 1])

\* the places where a year 20xx stands directly behind the leftmost quarter
\* pattern, nothing but whitespace between
YearBehindFirstQuarter(msg) ==
    {k \in (FirstQuarterPattern(msg) + 2)..Len(msg) :
        /\ YearAt(msg, k)
        /\ \A j \in (FirstQuarterPattern(msg) + 2)..(k - 1) : IsSpace(msg[j])}

\* C24: for a query with a quarter pattern Qn, date_start is the first day of
\* month (n-1)*3+1 and date_end the first day of the month three months on,
\* which for Q4 is January 1 of the following year; the year is the one that
\* stands directly behind Qn, and the current year when none does.  (Of
\* several quarter patterns, Qn is the leftmost.)
C24_QuarterRange ==
    (detected /\ HasQuarterPattern(message)) =>
        LET n == FirstQuarter(message)
            behind == YearBehindFirstQuarter(message)
            year == IF behind = {} THEN nowYear
                    ELSE YearValue(message, Min(behind))
        IN  /\ {"date_start", "date_end"} \subseteq DOMAIN hints
            /\ hints["date_start"] = DateTime(year, (n - 1) * 3 + 1, 1)
            /\ hints["date_end"] = IF n = 4
                                   THEN DateTime(year + 1, 1, 1)
                                   ELSE DateTime(year, (n - 1) * 3 + 4, 1)

\* A query with Q4 and no year behind it, and with a month name and a year
\* token elsewhere, has been analysed in 2026: its range is 2026-10-01 ..
\* 2027-01-01.
C24_Witness ==
    /\ detected
    /\ nowYear = 2026
    /\ HasQuarterPattern(message)
    /\ FirstQuarter(message) = 4
    /\ YearBehindFirstQuarter(message) = {}
    /\ HasMonthName(message)
    /\ HasYearToken(message)
    /\ hints["date_start"] = DateTime(2026, 10, 1)
    /\ hints["date_end"] = DateTime(2027, 1, 1)

-----------------------------------------------------------------------------
(* The claim about event dates, checked under SpecAssign *)

\* the events whose title occurs in the chunk, letter case aside
EventsIn(chunk, events) ==
    {k \in DOMAIN events : Contains(Lower(chunk), Lower(events[k].title))}

\* C25: every chunk gets the document's primary_date and is_timeless, except
\* that in an email_thread or meeting_notes document a chunk gets the date of
\* the first event of the extraction's list whose title occurs in the chunk,
\* letter case aside; in a document of any other type the events change no
\* date, and no event changes is_timeless.
C25_FirstEventInListOrder ==
    assign.called =>
        \A i \in DOMAIN assign.chunks :
            LET doc == assign.doc_extraction
                matching == EventsIn(assign.chunks[i], doc.events)
            IN  /\ i \in DOMAIN assign.output
                /\ assign.output[i].is_timeless = doc.is_timeless
                /\ assign.output[i].chunk_date =
                       IF /\ doc.document_type \in {"email_thread", "meeting_notes"}
                          /\ matching # {}
                       THEN doc.events[Min(matching)].date
                       ELSE doc.primary_date

\* assign_chunk_dates has run on meeting notes with a primary date and two
\* events, on a chunk that holds both titles, the title of the second event
\* before that of the first: the chunk has the date of the first event.
C25_Witness ==
    /\ assign.called
    /\ assign.doc_extraction.document_type = "meeting_notes"
    /\ assign.doc_extraction.primary_date = Naive(RangeStart)
    /\ Len(assign.doc_extraction.events) = 2
    /\ assign.chunks # <<>>
    /\ assign.chunks[1] = KickoffBudget
    /\ EventsIn(assign.chunks[1], assign.doc_extraction.events) = {1, 2}
    /\ assign.output[1].chunk_date = assign.doc_extraction.events[1].date

-----------------------------------------------------------------------------
(* The claim about the shape of the range, checked under SpecIntent *)

\* datetime a < datetime b
Earlier(a, b) ==
    \/ a.year < b.year
    \/ a.year = b.year /\ a.month < b.month
    \/ a.year = b.year /\ a.month = b.month /\ a.day < b.day

\* C26: the hints of every query hold both date_start and date_end or neither
\* of them, and a date_start they hold is strictly earlier than the date_end.
C26_RangeWellFormed ==
    detected =>
        /\ "date_start" \in DOMAIN hints <=> "date_end" \in DOMAIN hints
        /\ "date_start" \in DOMAIN hints
               => Earlier(hints["date_start"], hints["date_end"])

\* A query with a year token and a month name but no quarter pattern has been
\* analysed, and its range runs over the end of a year: the month of date_end
\* is before the month of date_start.
C26_Witness ==
    /\ detected
    /\ HasYearToken(message)
    /\ ~HasQuarterPattern(message)
    /\ {"date_start", "date_end"} \subseteq DOMAIN hints
    /\ hints["date_end"].month < hints["date_start"].month
    /\ Earlier(hints["date_start"], hints["date_end"])

-----------------------------------------------------------------------------
(* The claim about the size of the factor, checked under SpecRerank *)

\* C27 as stated: whatever the chunk_date of a result, a date later than now
\* included, re-ranking multiplies its score by a factor from 0.9 to 1.2.
C27_FactorWithinBounds ==
    rerank.called =>
        \A i \in DOMAIN rerank.input :
            /\ InResults(rerank.input[i], rerank.output)
            /\ 9 * rerank.input[i].score <= 10 * Reranked(i).score
            /\ 10 * Reranked(i).score <= 12 * rerank.input[i].score

-----------------------------------------------------------------------------
(* The claim about the date bounds and the fetch limit, checked under Spec *)

\* the points of the store that pass the filter of the search and whose
\* chunk_date lies within the bounds of the search
MatchingChunks ==
    {i \in DOMAIN store :
        /\ MustMatch(store[i], search.document_ids, search.companies)
        /\ store[i].chunk_date.kind = "naive"
        /\ Supplied(search.date_start)
               => search.date_start.at <= store[i].chunk_date.at
        /\ Supplied(search.date_end)
               => store[i].chunk_date.at <= search.date_end.at}

\* C28 as stated: a search with date bounds, on a store that holds top_k or
\* more chunks that pass the filter and lie within the bounds, returns
\* exactly top_k results.
C28_MatchingChunksNotCrowdedOut ==
    (/\ search.called /\ ~search.abandoned /\ ~search.dimension_error
     /\ ~search.raised
     /\ Supplied(search.date_start) \/ Supplied(search.date_end)
     /\ Cardinality(MatchingChunks) >= search.top_k)
        => Len(search.results) = search.top_k

-----------------------------------------------------------------------------
(* The claims about concurrent and failing requests, checked under
   SpecRequests *)

\* the committed documents that were saved from the upload
DocumentsOf(upload_id) ==
    {d \in DOMAIN docs : docs[d].stored_file_path = upload_id}

\* C29 as stated: of one upload_id at most one document is ever created and
\* indexed, however the save requests for it interleave; and a save request
\* that begins after a save of the same upload_id has returned ends in
\* not-found.
C29_OneDocumentPerUpload ==
    /\ \A upload_id \in 1..MaxUploads :
           Cardinality(DocumentsOf(upload_id)) <= 1
    /\ \A r \in 1..MaxRequests :
           requests[r].after_done => requests[r].pc = "not_found"

\* no request stands at an await
Quiescent ==
    \A r \in 1..MaxRequests :
        requests[r].pc \in {"idle", "done", "failed", "not_found"}

\* C30 as stated: when no request is in flight, whatever requests have run
\* and however they ended, the store holds chunks of a document_id only if
\* the document has its committed row, and of every committed document with
\* is_indexed = TRUE and chunk_count = n it holds exactly n chunks.
C30_StoreAgreesWithRows ==
    Quiescent =>
        /\ \A i \in DOMAIN store : store[i].document_id \in DOMAIN docs
        /\ \A d \in DOMAIN docs :
               docs[d].is_indexed => ChunksOf(store, d) = docs[d].chunk_count

====
